---- MODULE Spec2Model ----
(***************************************************************************)
(* Batch<T> of src/include/renderer/batch.hpp as a state machine.          *)
(*                                                                         *)
(* One Batch object (the namespace-scope chunk_batch of renderer.h, hence  *)
(* zero-initialised before init) is driven by an arbitrary caller through  *)
(* its public member functions.  Sizes and offsets are measured in vertex  *)
(* records (sizeof(T) = sizeof(Vertex3D) = 1 unit); the capacity and the   *)
(* width of the unsigned counters are scaled down so that the boundary     *)
(* cases (count = capacity, count + amount > capacity, count + amount      *)
(* >= 2^width) are all reachable.                                          *)
(***************************************************************************)
EXTENDS Integers, Sequences, FiniteSets

\* ---------------------------------------------------------------- bounds
\* kMaxBatchSize is 10000000 in the source; scaled.
kMaxBatchSize == 2
\* Width in bits of uint32 / int32 / GLsizei, scaled.
UIntBits == 3
\* How many times init may be called in one behaviour.
MaxInits == 2

UIntMod == 2 ^ UIntBits
UIntMax == UIntMod - 1
\* The ghost count of accumulated vertices is capped (one wrap-around fits).
MaxAccumulated == UIntMod + kMaxBatchSize + 1

\* sizeof(T), sizeof(Vertex3D): the unit of measure of sizes and offsets.
sizeof_T == 1
sizeof_Vertex3D == 1

NULL == 0
GL_TRIANGLES == "GL_TRIANGLES"

\* Vertex records a caller submits; 0 is a bit pattern no caller submits.
Vertices == {1, 2}
Records == {0} \cup Vertices
\* Contents of freshly allocated (uninitialised) storage: indeterminate,
\* modelled as one arbitrary record value repeated over the region.
Fill(n, r) == [i \in 1 .. n |-> r]

\* Attribute lists a caller may hand to init (attribute slots only).
AttributeLists == { <<0, 1, 2>> }

VARIABLES
    m_vao,               \* uint32 m_vao
    m_vertex_data_vbo,   \* uint32 m_vertex_data_vbo
    m_draw_command_vbo,  \* uint32 m_draw_command_vbo
    m_data_size,         \* uint32 m_data_size
    m_vertex_count,      \* uint32 m_vertex_count
    zIndex,              \* int32 zIndex
    data,                \* T* data: NULL or the id of an AmoMemory allocation
    staging,             \* the records of the allocation data points to
    heap_live,           \* ids of AmoMemory allocations not yet released
    heap_released,       \* how many times each allocation id was released
    gl_names,            \* number of GL object names generated so far
    vbo_store,           \* data store of buffer m_vertex_data_vbo
    vao_attribs,         \* attribute slots enabled on vertex array m_vao
    call,                \* the member function called last
    log,                 \* messages the last call reported
    gl_draws,            \* glDrawArrays calls the last call issued
    wild_writes,         \* writes of the last call outside any allocation
    crashed,             \* the process was terminated by a wild write
    accumulated,         \* ghost: vertices accepted since the last reset
    operands,            \* the Batch objects handed to operator<
    less                 \* less[i][j]: the result of operands[i] < operands[j]

vars == << m_vao, m_vertex_data_vbo, m_draw_command_vbo, m_data_size,
           m_vertex_count, zIndex, data, staging, heap_live, heap_released,
           gl_names, vbo_store, vao_attribs, call, log, gl_draws,
           wild_writes, crashed, accumulated, operands, less >>

handles == << m_vao, m_vertex_data_vbo, m_draw_command_vbo >>
heap == << heap_live, heap_released >>
gl_objects == << gl_names, vbo_store, vao_attribs >>
order_vars == << operands, less >>

\* ------------------------------------------------------------- helpers
Min(a, b) == IF a < b THEN a ELSE b

\* Conversion of a uint32 to GLsizei (two's complement, same width).
ToGLsizei(n) == IF n >= 2 ^ (UIntBits - 1) THEN n - UIntMod ELSE n

\* AmoLogger_Error(fmt, ...): reports the message and returns to the caller.
AmoLogger_Error(messages, msg) == messages \cup {msg}

\* AmoMemory_Allocate(size): a fresh allocation, never one handed out before.
Allocations ==
    Cardinality(heap_live) + Cardinality({a \in 1 .. MaxInits : heap_released[a] > 0})
AmoMemory_Allocate == Allocations + 1

\* Batch::hasRoom
hasRoom == m_vertex_count <= kMaxBatchSize

\* The test `m_vertex_count < 0` on an unsigned counter.
NegativeCount == m_vertex_count < 0

\* glNamedBufferSubData(buffer, offset, size, src) on a buffer whose data
\* store is `store` (<<>> when `buffer` names no buffer object): the store
\* afterwards.  GL_INVALID_OPERATION (no such buffer) and GL_INVALID_VALUE
\* (offset + size beyond the store) leave the store as it is.
glNamedBufferSubData(buffer, store, offset, size, src) ==
    IF buffer = 0 \/ store = <<>> THEN store
    ELSE IF offset + size > Len(store) * sizeof_T THEN store
    ELSE [i \in 1 .. Len(store) |->
             IF /\ (i - 1) * sizeof_Vertex3D >= offset
                /\ (i - 1) * sizeof_Vertex3D < offset + size
             THEN src[i - (offset \div sizeof_Vertex3D)]
             ELSE store[i]]

\* ---------------------------------------------------------------- Init
\* Static storage duration: every member is zero before init runs.
ZeroInitialised ==
    /\ m_vao = 0
    /\ m_vertex_data_vbo = 0
    /\ m_draw_command_vbo = 0
    /\ m_data_size = 0
    /\ m_vertex_count = 0
    /\ zIndex = 0
    /\ data = NULL
    /\ staging = <<>>
    /\ heap_live = {}
    /\ heap_released = [a \in 1 .. MaxInits |-> 0]
    /\ gl_names = 0
    /\ vbo_store = <<>>
    /\ vao_attribs = {}
    /\ call = "none"
    /\ log = {}
    /\ gl_draws = <<>>
    /\ wild_writes = <<>>
    /\ crashed = FALSE
    /\ accumulated = 0

Init ==
    /\ ZeroInitialised
    /\ operands = <<>>
    /\ less = <<>>

\* ------------------------------------------------------------- actions
\* Batch::init(vertex_attributes)
init_releases_previous(vertex_attributes) ==
    /\ ~crashed
    /\ UNCHANGED order_vars
    /\ Allocations < MaxInits
    /\ m_data_size' = (sizeof_T * kMaxBatchSize) % UIntMod
    /\ data' = AmoMemory_Allocate
    /\ heap_live' = (heap_live \ {data}) \cup {AmoMemory_Allocate}
    /\ heap_released' = IF data # NULL
                        THEN [heap_released EXCEPT ![data] = @ + 1]
                        ELSE heap_released
    /\ \E r \in Records : staging' = Fill(kMaxBatchSize, r)
    /\ m_vertex_count' = 0
    /\ zIndex' = 0
    /\ m_vertex_data_vbo' = gl_names + 1
    /\ m_draw_command_vbo' = gl_names + 2
    /\ m_vao' = gl_names + 3
    /\ gl_names' = gl_names + 3
    /\ \E r \in Records : vbo_store' = Fill(kMaxBatchSize, r)
    /\ vao_attribs' = { vertex_attributes[i] : i \in 1 .. Len(vertex_attributes) }
    /\ call' = "init"
    /\ log' = {}
    /\ gl_draws' = <<>>
    /\ wild_writes' = <<>>
    /\ accumulated' = 0
    /\ UNCHANGED crashed
init_keeps_key(vertex_attributes) ==
    /\ ~crashed
    /\ UNCHANGED order_vars
    /\ Allocations < MaxInits
    /\ m_data_size' = (sizeof_T * kMaxBatchSize) % UIntMod
    /\ data' = AmoMemory_Allocate
    /\ heap_live' = heap_live \cup {AmoMemory_Allocate}
    /\ \E r \in Records : staging' = Fill(kMaxBatchSize, r)
    /\ m_vertex_count' = 0
    /\ zIndex' = zIndex + Len(vertex_attributes)
    /\ m_vertex_data_vbo' = gl_names + 1
    /\ m_draw_command_vbo' = gl_names + 2
    /\ m_vao' = gl_names + 3
    /\ gl_names' = gl_names + 3
    /\ \E r \in Records : vbo_store' = Fill(kMaxBatchSize, r)
    /\ vao_attribs' = { vertex_attributes[i] : i \in 1 .. Len(vertex_attributes) }
    /\ call' = "init"
    /\ log' = {}
    /\ gl_draws' = <<>>
    /\ wild_writes' = <<>>
    /\ accumulated' = 0
    /\ UNCHANGED << heap_released, crashed >>
init(vertex_attributes) ==
    /\ ~crashed
    /\ UNCHANGED order_vars
    /\ Allocations < MaxInits
    /\ m_data_size' = (sizeof_T * kMaxBatchSize) % UIntMod
    /\ data' = AmoMemory_Allocate
    /\ heap_live' = heap_live \cup {AmoMemory_Allocate}
    /\ \E r \in Records : staging' = Fill(kMaxBatchSize, r)
    /\ m_vertex_count' = 0
    /\ zIndex' = 0
    /\ m_vertex_data_vbo' = gl_names + 1
    /\ m_draw_command_vbo' = gl_names + 2
    /\ m_vao' = gl_names + 3
    /\ gl_names' = gl_names + 3
    /\ \E r \in Records : vbo_store' = Fill(kMaxBatchSize, r)
    /\ vao_attribs' = { vertex_attributes[i] : i \in 1 .. Len(vertex_attributes) }
    /\ call' = "init"
    /\ log' = {}
    /\ gl_draws' = <<>>
    /\ wild_writes' = <<>>
    /\ accumulated' = 0
    /\ UNCHANGED << heap_released, crashed >>

\* A call that returns early: only the report of the call is left behind.
Rejected(name, messages) ==
    /\ call' = name
    /\ log' = messages
    /\ gl_draws' = <<>>
    /\ wild_writes' = <<>>
    /\ UNCHANGED << handles, m_data_size, m_vertex_count, zIndex, data,
                    staging, heap, gl_objects, crashed, accumulated >>

\* Batch::AddVertex(const T& vertex)
AddVertex(vertex) ==
    /\ ~crashed
    /\ UNCHANGED order_vars
    /\ LET messages == IF data = NULL
                       THEN AmoLogger_Error({}, "Invalid batch.")
                       ELSE {}
       IN  IF ~hasRoom
           THEN Rejected("AddVertex", AmoLogger_Error(messages, "Batch ran out of room."))
           ELSE IF NegativeCount
           THEN Rejected("AddVertex", AmoLogger_Error(messages, "Invalid vertex number."))
           ELSE /\ accumulated + 1 <= MaxAccumulated
                /\ call' = "AddVertex"
                /\ log' = messages
                /\ gl_draws' = <<>>
                /\ UNCHANGED << handles, m_data_size, zIndex, data, heap, gl_objects >>
                /\ IF data # NULL /\ m_vertex_count < Len(staging)
                   THEN \* data[m_vertex_count] = vertex; m_vertex_count++
                        /\ staging' = [staging EXCEPT ![m_vertex_count + 1] = vertex]
                        /\ m_vertex_count' = (m_vertex_count + 1) % UIntMod
                        /\ accumulated' = accumulated + 1
                        /\ wild_writes' = <<>>
                        /\ UNCHANGED crashed
                   ELSE \* the store goes through a null pointer or past the
                        \* end of the allocation: undefined behaviour
                        \/ /\ crashed' = TRUE
                           /\ wild_writes' = <<>>
                           /\ UNCHANGED << staging, m_vertex_count, accumulated >>
                        \/ /\ wild_writes' = << [base |-> data, index |-> m_vertex_count] >>
                           /\ m_vertex_count' = (m_vertex_count + 1) % UIntMod
                           /\ accumulated' = accumulated + 1
                           /\ UNCHANGED << staging, crashed >>

\* Batch::AddVertex(const T* vertex, uint32 vertex_amount); `vertex` holds
\* the records of the caller's array that the call can read.
AddVertexArray_staged(vertex, vertex_amount) ==
    /\ ~crashed
    /\ UNCHANGED order_vars
    /\ LET messages == IF data = NULL
                       THEN AmoLogger_Error({}, "Invalid batch.")
                       ELSE {}
       IN  IF ~hasRoom
           THEN Rejected("AddVertexArray", AmoLogger_Error(messages, "Batch ran out of room."))
           ELSE IF NegativeCount
           THEN Rejected("AddVertexArray", AmoLogger_Error(messages, "Invalid vertex number."))
           ELSE /\ accumulated + vertex_amount <= MaxAccumulated
                /\ call' = "AddVertexArray"
                /\ log' = messages
                /\ gl_draws' = <<>>
                /\ wild_writes' = <<>>
                /\ vbo_store' = glNamedBufferSubData(m_vertex_data_vbo, vbo_store,
                                    m_vertex_count * sizeof_Vertex3D,
                                    vertex_amount * sizeof_Vertex3D, vertex)
                /\ staging' = glNamedBufferSubData(data, staging,
                                    m_vertex_count * sizeof_Vertex3D,
                                    vertex_amount * sizeof_Vertex3D, vertex)
                /\ m_vertex_count' = (m_vertex_count + vertex_amount) % UIntMod
                /\ accumulated' = accumulated + vertex_amount
                /\ UNCHANGED << handles, m_data_size, zIndex, data,
                                heap, gl_names, vao_attribs, crashed >>
AddVertexArray(vertex, vertex_amount) ==
    /\ ~crashed
    /\ UNCHANGED order_vars
    /\ LET messages == IF data = NULL
                       THEN AmoLogger_Error({}, "Invalid batch.")
                       ELSE {}
       IN  IF ~hasRoom
           THEN Rejected("AddVertexArray", AmoLogger_Error(messages, "Batch ran out of room."))
           ELSE IF NegativeCount
           THEN Rejected("AddVertexArray", AmoLogger_Error(messages, "Invalid vertex number."))
           ELSE /\ accumulated + vertex_amount <= MaxAccumulated
                /\ call' = "AddVertexArray"
                /\ log' = messages
                /\ gl_draws' = <<>>
                /\ wild_writes' = <<>>
                /\ vbo_store' = glNamedBufferSubData(m_vertex_data_vbo, vbo_store,
                                    m_vertex_count * sizeof_Vertex3D,
                                    vertex_amount * sizeof_Vertex3D, vertex)
                /\ m_vertex_count' = (m_vertex_count + vertex_amount) % UIntMod
                /\ accumulated' = accumulated + vertex_amount
                /\ UNCHANGED << handles, m_data_size, zIndex, data, staging,
                                heap, gl_names, vao_attribs, crashed >>

\* Batch::Clear, as called by the caller and by Draw
ClearBody_keep ==
    /\ m_vertex_count' = m_vertex_count
    /\ accumulated' = accumulated
ClearBody ==
    /\ m_vertex_count' = 0
    /\ accumulated' = 0

Clear_wipes ==
    /\ ~crashed
    /\ UNCHANGED order_vars
    /\ ClearBody
    /\ staging' = Fill(Len(staging), 0)
    /\ call' = "Clear"
    /\ log' = {}
    /\ gl_draws' = <<>>
    /\ wild_writes' = <<>>
    /\ UNCHANGED << handles, m_data_size, zIndex, data, heap,
                    gl_objects, crashed >>
Clear ==
    /\ ~crashed
    /\ UNCHANGED order_vars
    /\ ClearBody
    /\ call' = "Clear"
    /\ log' = {}
    /\ gl_draws' = <<>>
    /\ wild_writes' = <<>>
    /\ UNCHANGED << handles, m_data_size, zIndex, data, staging, heap,
                    gl_objects, crashed >>

\* Batch::Draw
Draw_reloads ==
    /\ ~crashed
    /\ UNCHANGED order_vars
    /\ IF m_vertex_count <= 0
       THEN Rejected("Draw", {"No vertices to draw."})
       ELSE /\ vbo_store' = glNamedBufferSubData(m_vertex_data_vbo, vbo_store, 0,
                                m_data_size, staging)
            /\ gl_draws' = << [vao |-> m_vao, mode |-> GL_TRIANGLES, first |-> 0,
                               count |-> ToGLsizei(m_vertex_count)] >>
            /\ ClearBody
            /\ call' = "Draw"
            /\ log' = {}
            /\ wild_writes' = <<>>
            /\ UNCHANGED << handles, m_data_size, zIndex, data, staging, heap,
                            gl_names, vao_attribs, crashed >>
Draw ==
    /\ ~crashed
    /\ UNCHANGED order_vars
    /\ IF m_vertex_count <= 0
       THEN Rejected("Draw", {"No vertices to draw."})
       ELSE /\ gl_draws' = << [vao |-> m_vao, mode |-> GL_TRIANGLES, first |-> 0,
                               count |-> ToGLsizei(m_vertex_count)] >>
            /\ ClearBody
            /\ call' = "Draw"
            /\ log' = {}
            /\ wild_writes' = <<>>
            /\ UNCHANGED << handles, m_data_size, zIndex, data, staging, heap,
                            gl_objects, crashed >>

\* Batch::ReloadData
ReloadData_prefix ==
    /\ ~crashed
    /\ UNCHANGED order_vars
    /\ vbo_store' = glNamedBufferSubData(m_vertex_data_vbo, vbo_store, 0,
                        Min(m_vertex_count, m_data_size \div sizeof_T) * sizeof_T, staging)
    /\ call' = "ReloadData"
    /\ log' = {}
    /\ gl_draws' = <<>>
    /\ wild_writes' = <<>>
    /\ UNCHANGED << handles, m_data_size, m_vertex_count, zIndex, data, staging,
                    heap, gl_names, vao_attribs, crashed, accumulated >>
ReloadData ==
    /\ ~crashed
    /\ UNCHANGED order_vars
    /\ vbo_store' = glNamedBufferSubData(m_vertex_data_vbo, vbo_store, 0,
                        m_data_size, staging)
    /\ call' = "ReloadData"
    /\ log' = {}
    /\ gl_draws' = <<>>
    /\ wild_writes' = <<>>
    /\ UNCHANGED << handles, m_data_size, m_vertex_count, zIndex, data, staging,
                    heap, gl_names, vao_attribs, crashed, accumulated >>

\* Batch::Free
Free_dangling ==
    /\ ~crashed
    /\ UNCHANGED order_vars
    /\ IF data # NULL
       THEN /\ heap_live' = heap_live \ {data}
            /\ heap_released' = [heap_released EXCEPT ![data] = @ + 1]
            /\ m_data_size' = 0
            /\ UNCHANGED << data, staging >>
       ELSE UNCHANGED << heap_live, heap_released, data, staging, m_data_size >>
    /\ call' = "Free"
    /\ log' = {}
    /\ gl_draws' = <<>>
    /\ wild_writes' = <<>>
    /\ UNCHANGED << handles, m_vertex_count, zIndex, gl_objects, crashed, accumulated >>
Free ==
    /\ ~crashed
    /\ UNCHANGED order_vars
    /\ IF data # NULL
       THEN /\ heap_live' = heap_live \ {data}
            /\ heap_released' = [heap_released EXCEPT ![data] = @ + 1]
            /\ data' = NULL
            /\ staging' = <<>>
            /\ m_data_size' = 0
       ELSE UNCHANGED << heap_live, heap_released, data, staging, m_data_size >>
    /\ call' = "Free"
    /\ log' = {}
    /\ gl_draws' = <<>>
    /\ wild_writes' = <<>>
    /\ UNCHANGED << handles, m_vertex_count, zIndex, gl_objects, crashed, accumulated >>

\* The arrays a caller can pass with a given amount: the records the call
\* can read are those that fit the buffer, the rest is never looked at.
CallerArrays(vertex_amount) ==
    IF vertex_amount <= kMaxBatchSize
    THEN [1 .. vertex_amount -> Vertices]
    ELSE { <<>> }

\* The amounts a caller passes: everything up to one past the capacity, and
\* the largest values of the type.
BulkAmounts == (0 .. kMaxBatchSize + 1) \cup {UIntMax - 1, UIntMax}

Next ==
    \/ \E vertex_attributes \in AttributeLists : init(vertex_attributes)
    \/ \E vertex \in Vertices : AddVertex(vertex)
    \/ \E vertex_amount \in BulkAmounts :
          \E vertex \in CallerArrays(vertex_amount) : AddVertexArray(vertex, vertex_amount)
    \/ Draw
    \/ ReloadData
    \/ Clear
    \/ Free

Spec == Init /\ [][Next]_vars

\* ------------------------------------------------- the ordering relation
\* Values of the int32 sort key: the least and the greatest of the type (at
\* the scaled width), zero, and the keys 2 and -1.
Int32Min == 0 - 2 ^ (UIntBits - 1)
Int32Max == 2 ^ (UIntBits - 1) - 1
SortKeys == {Int32Min, 0 - 1, 0, 2, Int32Max}

\* The members of a Batch object that tell two batches apart for a caller:
\* sort key, vertex count, staging reference.
BatchObjects ==
    [zIndex : SortKeys, m_vertex_count : {0, kMaxBatchSize}, data : {NULL, 1}]

\* How many batches are compared with one another.
NumOperands == 3

\* Batch::operator<(const Batch& batch) const
operator_lt_or_equal(self, batch) == self.zIndex <= batch.zIndex
operator_lt(self, batch) == self.zIndex < batch.zIndex

\* Arbitrary Batch objects, not yet compared.
InitOrder ==
    /\ ZeroInitialised
    /\ operands \in [1 .. NumOperands -> BatchObjects]
    /\ less = <<>>

\* A caller (a sort over the batches) evaluates a < b for every pair.
Compare ==
    /\ operands # <<>>
    /\ less = <<>>
    /\ less' = [i \in 1 .. NumOperands |->
                  [j \in 1 .. NumOperands |-> operator_lt(operands[i], operands[j])]]
    /\ UNCHANGED << handles, m_data_size, m_vertex_count, zIndex, data, staging,
                    heap, gl_objects, call, log, gl_draws, wild_writes, crashed,
                    accumulated, operands >>

NextOrder == Compare

SpecOrder == InitOrder /\ [][NextOrder]_vars

\* ------------------------------------------------------ steps by name
SingleAdd == \E vertex \in Vertices : AddVertex(vertex)
BulkAdd(vertex_amount) ==
    \E vertex \in CallerArrays(vertex_amount) : AddVertexArray(vertex, vertex_amount)
\* The call passes the checks of AddVertex and runs to its last statement.
Accepted == hasRoom /\ ~NegativeCount /\ ~crashed'
\* The members of the batch object and the memory it owns.
batch_state == << handles, m_data_size, m_vertex_count, zIndex, data, staging, vbo_store >>

\* ---------------------------------------------------------------- claims

\* C1: in every state reached from init by AddVertex, ReloadData, Draw and
\* Clear calls (the batch holds staging memory), 0 <= vertex_count <=
\* max_capacity.
C1_CapacityInvariant ==
    data # NULL =>
        /\ 0 <= m_vertex_count
        /\ m_vertex_count <= kMaxBatchSize

\* C2: a single-vertex AddVertex on an initialised batch whose count equals
\* the capacity changes neither the count nor any memory and reports an error.
C2_FullSingleAddRejected ==
    [][ (SingleAdd /\ data # NULL /\ m_vertex_count = kMaxBatchSize)
        => /\ m_vertex_count' = m_vertex_count
           /\ staging' = staging
           /\ wild_writes' = <<>>
           /\ ~crashed'
           /\ "Batch ran out of room." \in log' ]_vars

\* C3: a bulk AddVertex with vertex_count + amount > max_capacity reports the
\* capacity error and changes neither the count nor the GPU vertex buffer.
C3_BulkOverCapacityRejected ==
    [][ \A vertex_amount \in BulkAmounts :
          (BulkAdd(vertex_amount) /\ data # NULL
             /\ m_vertex_count + vertex_amount > kMaxBatchSize)
          => /\ m_vertex_count' = m_vertex_count
             /\ vbo_store' = vbo_store
             /\ "Batch ran out of room." \in log' ]_vars

\* C4: an accumulate call on a batch without staging memory reports an error
\* and changes nothing: no count change, no write through the null pointer,
\* no write into the GPU buffer, and execution continues.
C4_NoStagingAddAborts ==
    [][ ((SingleAdd \/ \E vertex_amount \in BulkAmounts : BulkAdd(vertex_amount))
           /\ data = NULL)
        => /\ "Invalid batch." \in log'
           /\ batch_state' = batch_state
           /\ wild_writes' = <<>>
           /\ ~crashed' ]_vars

\* C5: Draw on a batch without staging memory (one that was initialised and
\* then released by Free) issues no draw call and changes no batch state.
C5_NoStagingDrawAborts ==
    [][ (Draw /\ data = NULL /\ m_vao # 0)
        => /\ gl_draws' = <<>>
           /\ batch_state' = batch_state ]_vars

\* C6: on an initialised batch an accepted single-vertex AddVertex raises the
\* count by exactly 1, an accepted bulk AddVertex by exactly its amount (no
\* wrap-around), and ReloadData leaves the count as it is.
C6_CountMonotonic ==
    [][ /\ (SingleAdd /\ data # NULL /\ Accepted)
              => m_vertex_count' = m_vertex_count + 1
        /\ \A vertex_amount \in BulkAmounts :
              (BulkAdd(vertex_amount) /\ data # NULL /\ Accepted)
              => m_vertex_count' = m_vertex_count + vertex_amount
        /\ ReloadData => m_vertex_count' = m_vertex_count ]_vars

\* C7: on an initialised batch a Draw that finds vertex_count > 0 issues
\* exactly one triangle-list draw of the vertices [0, n), n the number of
\* vertices accepted since the last init, Clear or drawing Draw; a Draw that
\* finds vertex_count = 0 issues none and changes no state.
C7_DrawCoversAccumulated ==
    [][ (Draw /\ data # NULL) =>
          IF m_vertex_count > 0
          THEN gl_draws' = << [vao |-> m_vao, mode |-> GL_TRIANGLES, first |-> 0,
                               count |-> accumulated] >>
          ELSE gl_draws' = <<>> /\ batch_state' = batch_state ]_vars

\* C8: a Draw that finds vertex_count > 0 leaves vertex_count = 0, and a Draw
\* that immediately follows it issues no draw call.
C8_DrawResets ==
    [][ Draw =>
          /\ m_vertex_count > 0 => m_vertex_count' = 0
          /\ (call = "Draw" /\ gl_draws # <<>>) => gl_draws' = <<>> ]_vars
\* A Draw has just drawn a full batch.
C8_Witness ==
    /\ call = "Draw"
    /\ gl_draws # <<>>
    /\ gl_draws[1].count = kMaxBatchSize
    /\ m_vertex_count = 0

\* C9: ReloadData on an initialised batch leaves the GPU vertex buffer equal
\* to the staging buffer over the whole region, hence over the records
\* [0, vertex_count), and changes neither the staging buffer nor the count.
C9_ReloadFullSync ==
    [][ (ReloadData /\ data # NULL)
        => /\ vbo_store' = staging'
           /\ \A i \in 1 .. Min(m_vertex_count', Len(staging')) :
                 vbo_store'[i] = staging'[i]
           /\ staging' = staging
           /\ m_vertex_count' = m_vertex_count ]_vars
\* ReloadData has just run on a batch staged with distinct vertices.
C9_Witness ==
    /\ call = "ReloadData"
    /\ data # NULL
    /\ m_vertex_count = kMaxBatchSize
    /\ staging[1] = 1
    /\ staging[kMaxBatchSize] = 2
    /\ vbo_store = staging

\* C10: an accepted accumulate call that starts at count c stores its i-th
\* vertex at slot c + i of the buffer it writes (staging for the single-vertex
\* call, the GPU vertex buffer for the bulk call) and leaves the slots below
\* c as they were.
C10_AccumulateOrdering ==
    [][ /\ \A vertex \in Vertices :
              (AddVertex(vertex) /\ data # NULL /\ Accepted)
              => /\ m_vertex_count < Len(staging')
                 /\ staging'[m_vertex_count + 1] = vertex
                 /\ \A j \in 1 .. m_vertex_count : staging'[j] = staging[j]
        /\ \A vertex_amount \in BulkAmounts :
              \A vertex \in CallerArrays(vertex_amount) :
                 (AddVertexArray(vertex, vertex_amount) /\ data # NULL /\ Accepted)
                 => /\ m_vertex_count + vertex_amount <= Len(vbo_store')
                    /\ \A i \in 1 .. vertex_amount :
                          vbo_store'[m_vertex_count + i] = vertex[i]
                    /\ \A j \in 1 .. m_vertex_count : vbo_store'[j] = vbo_store[j] ]_vars

C12_ClearOnlyResetsCount ==
    [][ Clear =>
          /\ m_vertex_count' = 0
          /\ UNCHANGED << handles, m_data_size, zIndex, data, staging, vbo_store,
                          vao_attribs, heap >>
          /\ m_vertex_count = 0 => batch_state' = batch_state ]_vars
\* Clear has just discarded a full batch whose staged records are still there.
C12_Witness ==
    /\ call = "Clear"
    /\ m_vertex_count = 0
    /\ data # NULL
    /\ staging[1] = 1
    /\ staging[kMaxBatchSize] = 2

\* C13: in every reachable state the batch is either uninitialised (no GPU
\* buffers, no staging memory) or ready (both present).
C13_UninitialisedOrReady ==
    \/ /\ m_vao = 0
       /\ m_vertex_data_vbo = 0
       /\ m_draw_command_vbo = 0
       /\ data = NULL
    \/ /\ m_vao # 0
       /\ m_vertex_data_vbo # 0
       /\ m_draw_command_vbo # 0
       /\ data # NULL

\* C14: Free on a batch with staging memory releases that allocation, once,
\* nulls the staging reference, zeroes the recorded size and leaves the GPU
\* handles, the GPU records, vertex_count and the sort key as they are; Free
\* on a batch without staging memory changes nothing; no allocation is ever
\* released twice.
C14_FreeReleasesOnce ==
    [][ Free =>
          /\ IF data # NULL
             THEN /\ heap_live' = heap_live \ {data}
                  /\ heap_released' = [heap_released EXCEPT ![data] = 1]
                  /\ data' = NULL
                  /\ m_data_size' = 0
             ELSE UNCHANGED << heap, data, m_data_size >>
          /\ UNCHANGED << handles, vbo_store, vao_attribs, m_vertex_count, zIndex >>
          /\ \A a \in DOMAIN heap_released' : heap_released'[a] <= 1 ]_vars
\* Free has just released the staging memory of a batch holding vertices.
C14_Witness ==
    /\ call = "Free"
    /\ data = NULL
    /\ m_data_size = 0
    /\ heap_released[1] = 1
    /\ heap_live = {}
    /\ m_vao # 0
    /\ m_vertex_count = kMaxBatchSize

\* C16: init resets vertex_count to zero and installs a fresh staging
\* allocation of max_capacity records; it releases nothing, so an allocation
\* the batch held before stays live with no reference to it (leaked), while
\* init after Free leaves the new allocation as the only live one.
C16_InitAllocatesWithoutReleasing ==
    [][ \A vertex_attributes \in AttributeLists :
          init(vertex_attributes) =>
             /\ m_vertex_count' = 0
             /\ data' # NULL
             /\ data' \notin heap_live
             /\ heap_released[data'] = 0
             /\ Len(staging') = kMaxBatchSize
             /\ m_data_size' = kMaxBatchSize * sizeof_T
             /\ heap_live' = heap_live \cup {data'}
             /\ heap_released' = heap_released
             /\ data # NULL => (data \in heap_live' /\ data # data')
             /\ (data = NULL /\ heap_live = {}) => heap_live' = {data'} ]_vars
\* A second init without Free in between has just leaked the first allocation.
C16_Witness ==
    /\ call = "init"
    /\ data = 2
    /\ heap_live = {1, 2}
    /\ heap_released[1] = 0
    /\ m_vertex_count = 0

\* C17: the sort key of the batch is 0 in every reachable state: init sets
\* it to 0 and no other operation assigns it, so the keys 2 and -1 of the
\* spec's scenario are never reached.
C17_SortKeyAlwaysZero ==
    /\ zIndex = 0
    /\ zIndex \notin {2, -1}
\* An initialised batch that has been through accumulate, draw and release.
C17_Witness ==
    /\ m_vao # 0
    /\ call = "Free"
    /\ m_vertex_count > 0
    /\ zIndex = 0

\* C18: the bulk AddVertex never writes the staging buffer, and a ReloadData
\* that follows it on an initialised batch makes every GPU slot, those the
\* bulk call uploaded included, hold the staging contents again, while
\* vertex_count (which the next Draw covers) still counts the bulk vertices.
C18_ReloadOverwritesBulkUpload ==
    [][ /\ staging' # staging
              => \A vertex_amount \in BulkAmounts : ~BulkAdd(vertex_amount)
        /\ (call = "AddVertexArray" /\ data # NULL /\ ReloadData)
              => /\ \A i \in 1 .. Len(vbo_store') : vbo_store'[i] = staging[i]
                 /\ m_vertex_count' = m_vertex_count
                 /\ accumulated' = accumulated
        /\ (call = "ReloadData" /\ data # NULL /\ Draw /\ m_vertex_count > 0)
              => /\ gl_draws' # <<>>
                 /\ gl_draws'[1].count = ToGLsizei(m_vertex_count)
                 /\ vbo_store' = staging ]_vars
\* ReloadData has just run on a batch whose vertices all came from the bulk
\* call: the count is at capacity, the staging buffer was never written and
\* the GPU slots hold the staging contents, not the uploaded vertices.
C18_Witness ==
    /\ call = "ReloadData"
    /\ data # NULL
    /\ m_vertex_count = kMaxBatchSize
    /\ accumulated = kMaxBatchSize
    /\ staging = Fill(kMaxBatchSize, 0)
    /\ vbo_store = Fill(kMaxBatchSize, 0)

\* The arrangements of the operands that the relation accepts as sorted: no
\* later batch is less than an earlier one.
SortedArrangements ==
    { p \in [1 .. NumOperands -> 1 .. NumOperands] :
        /\ \A a, b \in 1 .. NumOperands : a # b => p[a] # p[b]
        /\ \A a, b \in 1 .. NumOperands : a < b => ~less[p[b]][p[a]] }

\* C15: A < B holds exactly when zIndex(A) < zIndex(B), whatever the vertex
\* counts and staging references are; the relation is irreflexive, asymmetric
\* and transitive, and every arrangement sorted by it has each batch with a
\* smaller key before each batch with a larger key.
C15_LessThanIsKeyOrder ==
    less # <<>> =>
        /\ \A i, j \in 1 .. NumOperands :
              less[i][j] <=> operands[i].zIndex < operands[j].zIndex
        /\ \A i, j, k, l \in 1 .. NumOperands :
              (/\ operands[i].zIndex = operands[k].zIndex
               /\ operands[j].zIndex = operands[l].zIndex) => less[i][j] = less[k][l]
        /\ \A i \in 1 .. NumOperands : ~less[i][i]
        /\ \A i, j \in 1 .. NumOperands : less[i][j] => ~less[j][i]
        /\ \A i, j, k \in 1 .. NumOperands : (less[i][j] /\ less[j][k]) => less[i][k]
        /\ \A p \in SortedArrangements :
              \A a, b \in 1 .. NumOperands :
                 operands[p[a]].zIndex < operands[p[b]].zIndex => a < b
\* The batches with keys 2 and -1 have been compared; a third batch has the
\* key of the first and another vertex count and staging reference.
C15_Witness ==
    /\ less # <<>>
    /\ operands[1].zIndex = 2
    /\ operands[2].zIndex = 0 - 1
    /\ operands[3].zIndex = 2
    /\ operands[1].m_vertex_count # operands[3].m_vertex_count
    /\ operands[1].data # operands[3].data
    /\ less[2][1]
    /\ ~less[1][2]
    /\ ~less[1][3]

====
